---- MODULE Spec2Model ----
(***************************************************************************)
(* The API gateway of POS Core (src/microservicios/api_gateway/app/main.py)*)
(* as a state machine: one run per inbound request, the FastAPI router,    *)
(* the HTTPBearer dependency, the token validation call, the header        *)
(* adaptation, the forward call and the mapping of its outcome to the      *)
(* response.                                                               *)
(*                                                                         *)
(* Python values are written as follows.  A dict is a sequence of          *)
(* <<key, value>> pairs with distinct keys, in insertion order.  The       *)
(* headers of a request are a sequence of <<name, value>> pairs in which a *)
(* name may repeat.  A URL path is the sequence of its segments.  None is  *)
(* the record Ninguno.                                                     *)
(***************************************************************************)
EXTENDS Integers, Sequences, FiniteSets, TLC

VARIABLES
    pc,            \* where each run is in the handling of its request
    request,       \* the inbound request of each run
    handler,       \* the endpoint the request was routed to, and its arguments
    usuario,       \* what validar_token returned
    authOutcome,   \* what became of the token validation call
    llamadas,      \* the outbound calls made for the request, in order
    fwdOutcome,    \* what became of the forward call
    conexion,      \* the upstream connection of the forward call
    respuesta,     \* the response to the client
    salud,         \* the health report being built, and the time it has taken
    servicios,     \* the module's SERVICIOS dictionary as the handlers read it
    users,         \* the users collection of the authentication service
    meRespuesta,   \* the last answer of the authentication service
    stock,         \* the stock of each product, as the sales service reads and writes it
    ventasDb,      \* the ventas collection
    venta,         \* the calls of crear_venta: position, items, response
    productos,     \* the productos collection of the product service
    prodRespuesta, \* the last operation of the product service and its answer
    cola_impresion,\* the Redis list cola_impresion, head first
    trabajos,      \* the print jobs: the entry pushed and the background task
    observadores,  \* SujetoStock._observadores
    notificacion   \* the last call of notificar_observadores: the calls of actualizar

vars == <<pc, request, handler, usuario, authOutcome, llamadas, fwdOutcome, conexion,
          respuesta, salud, servicios, users, meRespuesta, stock, ventasDb, venta,
          productos, prodRespuesta, cola_impresion, trabajos, observadores, notificacion>>

\* the state of the services behind the gateway
ventasVars == <<stock, ventasDb, venta>>

productosVars == <<productos, prodRespuesta>>

impresionVars == <<cola_impresion, trabajos>>

observadorVars == <<observadores, notificacion>>

\* the product, print and inventory services
restoVars == <<productosVars, impresionVars, observadorVars>>

otros == <<users, meRespuesta, ventasVars, restoVars>>

\* the runs of a handler, one per inbound request
Tareas == {"t1"}

(***************************************************************************)
(* Bounds of the model.                                                    *)
(***************************************************************************)
\* the longest inbound header list
MaxHeaders == 2

\* the longest query string, in pairs
MaxQuery == 2

\* the most users the authentication service registers
MaxUsers == 2

\* the most items of a sale
MaxItems == 2

(***************************************************************************)
(* Python dicts.                                                           *)
(***************************************************************************)
DictKeys(d) == {d[i][1] : i \in 1..Len(d)}

DictHas(d, k) == k \in DictKeys(d)

DictIndex(d, k) == CHOOSE i \in 1..Len(d) : d[i][1] = k

\* d.get(k, default)
DictGet(d, k, default) == IF DictHas(d, k) THEN d[DictIndex(d, k)][2] ELSE default

\* d[k] = v : an existing key keeps its place, a new key goes last
DictSet(d, k, v) ==
    IF DictHas(d, k)
    THEN [d EXCEPT ![DictIndex(d, k)] = <<k, v>>]
    ELSE Append(d, <<k, v>>)

RECURSIVE DictFromItems(_)
\* dict(items) and the loop "for key, value in items: d[key] = value"
DictFromItems(items) ==
    IF items = << >> THEN << >>
    ELSE DictSet(DictFromItems(SubSeq(items, 1, Len(items) - 1)),
                 items[Len(items)][1], items[Len(items)][2])

(***************************************************************************)
(* The registry.                                                           *)
(***************************************************************************)
SERVICIOS ==
    << <<"auth", "http://servicio_autenticacion:8001">>,
       <<"inventario", "http://servicio_inventario:8000">>,
       <<"productos", "http://servicio_productos:8002">>,
       <<"ventas", "http://servicio_ventas:8003">>,
       <<"reportes", "http://servicio_reportes:8004">>,
       <<"impresion", "http://servicio_impresion:8006">> >>

\* the name -> base address lookups on the registry
Registrado(servicio) == DictHas(servicios, servicio)

(***************************************************************************)
(* JSON values: a tag and, for a dict, its items.  None, an empty dict and *)
(* an empty list are falsy.                                                *)
(***************************************************************************)
Ninguno == [tipo |-> "None", items |-> << >>]

JDict(items) == [tipo |-> "dict", items |-> items]

JList(items) == [tipo |-> "list", items |-> items]

\* a body that json() cannot decode
JInvalid == [tipo |-> "invalid", items |-> << >>]

\* bool(v)
Truthy(v) == v.tipo \in {"dict", "list"} /\ v.items # << >>

(***************************************************************************)
(* Inbound requests.                                                       *)
(***************************************************************************)
Methods == {"GET", "POST", "PUT", "DELETE", "PATCH"}

\* str.lower() on the header names and schemes clients write
Lower(name) ==
    CASE name = "Host" -> "host"
      [] name = "CONTENT-LENGTH" -> "content-length"
      [] name = "Authorization" -> "authorization"
      [] name = "X-User-Id" -> "x-user-id"
      [] name = "Accept" -> "accept"
      [] name = "Bearer" -> "bearer"
      [] name = "Basic" -> "basic"
      [] OTHER -> name

\* the <<name, value>> pairs a client may send
HeaderPool ==
    { <<"Host", "gateway:8000">>,
      <<"CONTENT-LENGTH", "12">>,
      <<"Authorization", "Bearer tokA">>,
      <<"authorization", "bearer tokB">>,
      <<"Authorization", "Basic abc">>,
      <<"Authorization", "Bearer">>,
      <<"X-User-Id", "mallory">>,
      <<"x-user-email", "mallory@evil">>,
      <<"Accept", "json">> }

HeaderLists == UNION {[1..n -> HeaderPool] : n \in 0..MaxHeaders}

\* the first path segment after /api, registered or not
ServiceNames == {"auth", "ventas", "nomina"}

\* the rest of the path
SubPaths == { <<"login">>, <<"registro">>, <<"api", "v1", "ventas">> }


\* the requests to the root endpoint
RootRequests ==
    [method : {"GET"}, path : {<< >>}, headers : {<< >>}, query : {<< >>}, body : {""}]

\* the requests to the health endpoints
HealthRequests ==
    [method : {"GET", "POST"}, path : {<<"health">>, <<"api", "health">>},
     headers : {<< >>}, query : {<< >>}, body : {""}]

\* the <<key, value>> pairs of a query string, and the query strings
QueryPool == { <<"q", "1">>, <<"q", "2">>, <<"page", "1">> }

QueryLists == UNION {[1..n -> QueryPool] : n \in 0..MaxQuery}

\* request bodies
Bodies == {"", "{\"total\": 10}"}

\* the inbound requests to /api/{servicio}/{path}: any header list, and
\* with an accepted kind of credential any query string and body
Requests ==
    [method : Methods,
     path : {<<"api", s>> \o p : s \in ServiceNames, p \in SubPaths},
     headers : HeaderLists, query : {<< >>}, body : {""}]
    \cup
    [method : Methods,
     path : {<<"api", s>> \o p : s \in ServiceNames, p \in SubPaths},
     headers : { << <<"Authorization", "Bearer tokA">> >> },
     query : QueryLists, body : Bodies]

(***************************************************************************)
(* request.headers: the server hands the names over in lower case; a       *)
(* lookup is case-insensitive and yields the first match.                  *)
(***************************************************************************)
RequestHeaders(req) == [i \in 1..Len(req.headers) |-> <<Lower(req.headers[i][1]), req.headers[i][2]>>]

HeadersContains(hs, name) == \E i \in 1..Len(hs) : hs[i][1] = Lower(name)

HeadersGet(hs, name) ==
    LET idx == {i \in 1..Len(hs) : hs[i][1] = Lower(name)}
    IN hs[CHOOSE i \in idx : \A j \in idx : i <= j][2]

(***************************************************************************)
(* The router: the routes in the order of their registration; the first    *)
(* route whose path and method both match handles the request.             *)
(***************************************************************************)
Routes ==
    << [path |-> << >>, methods |-> {"GET"}, endpoint |-> "raiz"],
       [path |-> <<"health">>, methods |-> {"GET"}, endpoint |-> "salud"],
       [path |-> <<"api", "health">>, methods |-> {"GET"}, endpoint |-> "health_completo"],
       [path |-> <<"api", "{servicio}", "{path:path}">>, methods |-> Methods,
        endpoint |-> "proxy_request"],
       [path |-> <<"api", "auth", "login">>, methods |-> {"POST"}, endpoint |-> "login_proxy"],
       [path |-> <<"api", "auth", "registro">>, methods |-> {"POST"},
        endpoint |-> "registro_proxy"] >>

RECURSIVE PathMatches(_, _)
PathMatches(pattern, path) ==
    IF pattern = << >> THEN path = << >>
    ELSE IF Head(pattern) = "{path:path}" THEN path # << >>
    ELSE IF path = << >> THEN FALSE
    ELSE IF Head(pattern) = "{servicio}"
         THEN Head(path) # "" /\ PathMatches(Tail(pattern), Tail(path))
    ELSE Head(path) = Head(pattern) /\ PathMatches(Tail(pattern), Tail(path))

\* the endpoint that handles the request, or the router's own 405 / 404
Route(method, path) ==
    LET partial == {i \in 1..Len(Routes) : PathMatches(Routes[i].path, path)}
        full == {i \in partial : method \in Routes[i].methods}
    IN IF full # {} THEN Routes[CHOOSE i \in full : \A j \in full : i <= j].endpoint
       ELSE IF partial # {} THEN "405"
       ELSE "404"


(***************************************************************************)
(* security = HTTPBearer(): the credential of the Authorization header.    *)
(***************************************************************************)
\* get_authorization_scheme_param: the value split at its first space
SchemeParam(value) ==
    CASE value = "Bearer tokA" -> <<"Bearer", "tokA">>
      [] value = "bearer tokB" -> <<"bearer", "tokB">>
      [] value = "Basic abc" -> <<"Basic", "abc">>
      [] value = "Bearer" -> <<"Bearer", "">>
      [] OTHER -> <<value, "">>

\* whether HTTPBearer finds a bearer credential in the request
HasBearer(req) ==
    LET hs == RequestHeaders(req)
    IN /\ HeadersContains(hs, "Authorization")
       /\ LET sp == SchemeParam(HeadersGet(hs, "Authorization"))
          IN sp[1] # "" /\ sp[2] # "" /\ Lower(sp[1]) = "bearer"

\* credentials.credentials
BearerToken(req) == SchemeParam(HeadersGet(RequestHeaders(req), "Authorization"))[2]

\* the status of HTTPBearer's own rejection (auto_error): 403 up to FastAPI
\* 0.121, 401 from FastAPI 0.122 on; the repository pins neither
BearerRejectStatus == {403, 401}

(***************************************************************************)
(* The calls the gateway makes, and what may come back.                    *)
(***************************************************************************)
Users ==
    { JDict(<< <<"id", "u1">>, <<"email", "ana@pos">>, <<"role", "admin">> >>),
      JDict(<< <<"id", "u2">>, <<"email", "luis@pos">>, <<"role", "cajero">> >>) }

\* the bodies the identity endpoint may answer with
AuthBodies ==
    Users \cup { JDict(<< <<"email", "ana@pos">>, <<"role", "admin">> >>),
                 JDict(<< <<"id", "u1">>, <<"role", "admin">> >>),
                 JDict(<< <<"id", "u1">>, <<"email", "ana@pos">> >>),
                 JDict(<< >>), JList(<<"u1">>), JInvalid }

\* a response with its headers
ResponseH(status, json, headers) ==
    [tipo |-> "response", status |-> status, json |-> json, headers |-> headers]

Response(status, json) == ResponseH(status, json, << >>)

Failure(tipo) == [tipo |-> tipo, status |-> 0, json |-> Ninguno, headers |-> << >>]

\* the outcomes of GET {auth}/api/v1/auth/me
AuthOutcomes ==
    {Response(200, b) : b \in AuthBodies}
    \cup {Response(st, JDict(<< <<"detail", "Token invalido">> >>)) : st \in {401, 404, 500}}
    \cup {Failure("ConnectError"), Failure("ReadTimeout")}

\* the bodies a backend may answer with: JSON, nothing, or no JSON
BackendBodies == { JList(<<"v1">>), Ninguno, JInvalid }

\* the headers a backend may answer with
BackendHeaders ==
    { << <<"content-type", "application/json">>, <<"content-length", "14">>,
         <<"connection", "keep-alive">> >>,
      << <<"content-type", "application/json">>, <<"transfer-encoding", "chunked">>,
         <<"x-request-id", "r1">> >> }

\* the outcomes of the forward call
BackendOutcomes ==
    {ResponseH(st, b, h) : st \in {200, 404, 500}, b \in BackendBodies, h \in BackendHeaders}
    \cup {Failure(e) : e \in {"ConnectError", "ConnectTimeout", "ReadTimeout", "ReadError"}}

\* httpx's exception classes
IsConnectError(o) == o.tipo = "ConnectError"

IsTimeoutException(o) == o.tipo \in {"ConnectTimeout", "ReadTimeout"}

\* one outbound call of the gateway: the URL is base, "/" and path
Call(tipo, servicio, path, method, headers, params, content) ==
    [tipo |-> tipo, servicio |-> servicio, base |-> DictGet(servicios, servicio, ""),
     path |-> path, method |-> method, headers |-> headers, params |-> params,
     content |-> content]

\* HTTPException(status_code, detail) whose detail ends with the text exc
ErrorExc(status, detail, exc) ==
    [status |-> status, origen |-> "gateway", detail |-> detail, exc |-> exc,
     content |-> Ninguno, headers |-> << >>]

\* HTTPException(status_code, detail) with a fixed detail
Error(status, detail) == ErrorExc(status, detail, "")

\* JSONResponse(content, status_code, headers)
Upstream(status, content, headers) ==
    [status |-> status, origen |-> "upstream", detail |-> "", exc |-> "",
     content |-> content, headers |-> headers]

SinRespuesta ==
    [status |-> 0, origen |-> "none", detail |-> "", exc |-> "", content |-> Ninguno,
     headers |-> << >>]

(***************************************************************************)
(* ServicioAutenticacion.validar_token and obtener_usuario_actual.         *)
(***************************************************************************)
\* validar_token without the test of the status code
ValidarToken_CualquierStatus(o) ==
    IF o.tipo = "response"
    THEN IF o.json.tipo = "invalid" THEN Ninguno ELSE o.json
    ELSE Ninguno

\* the value validar_token returns for an outcome of its call
ValidarToken(o) ==
    IF o.tipo = "response"
    THEN IF o.status = 200
         THEN IF o.json.tipo = "invalid" THEN Ninguno ELSE o.json
         ELSE Ninguno
    ELSE Ninguno

\* "if usuario is None" in the place of "if not usuario"
UsuarioRechazado_SoloNone(u) == u = Ninguno

\* "if not usuario: raise HTTPException(401)"
UsuarioRechazado(u) == ~Truthy(u)

(***************************************************************************)
(* The header adaptation of proxy_request and proxy_request_publico.       *)
(***************************************************************************)
\* a filter that forgets content-length
NoReenviar_SoloHost(key) == Lower(key) = "host"

\* the headers that are not forwarded
NoReenviar(key) == Lower(key) \in {"host", "content-length"}

\* "for key, value in request.headers.items(): if ...: headers[key] = value"
FiltrarHeaders(items) == DictFromItems(SelectSeq(items, LAMBDA kv : ~NoReenviar(kv[1])))

\* "if 'authorization' in request.headers: headers['authorization'] = ..."
MantenerAutenticacion(headers, hs) ==
    IF HeadersContains(hs, "authorization")
    THEN DictSet(headers, "authorization", HeadersGet(hs, "authorization"))
    ELSE headers

\* headers.setdefault in the place of the assignment
Trazabilidad_SetDefault(headers, u) ==
    LET h1 == IF DictHas(headers, "x-user-id") THEN headers
              ELSE DictSet(headers, "x-user-id", DictGet(u.items, "id", "unknown"))
    IN IF DictHas(h1, "x-user-email") THEN h1
       ELSE DictSet(h1, "x-user-email", DictGet(u.items, "email", "unknown"))

\* usuario["id"], usuario["email"] with nothing in the place of a missing key
Trazabilidad_SinDefault(headers, u) ==
    DictSet(DictSet(headers, "x-user-id", DictGet(u.items, "id", "")),
            "x-user-email", DictGet(u.items, "email", ""))

\* headers["x-user-id"] = ..., headers["x-user-email"] = ...
Trazabilidad(headers, u) ==
    DictSet(DictSet(headers, "x-user-id", DictGet(u.items, "id", "unknown")),
            "x-user-email", DictGet(u.items, "email", "unknown"))

\* a filter that also drops the credential the gateway has consumed
HeadersProxy_SinAuth(req, u) ==
    Trazabilidad(
        FiltrarHeaders(SelectSeq(RequestHeaders(req), LAMBDA kv : kv[1] # "authorization")), u)

\* the headers proxy_request sends
HeadersProxy(req, u) ==
    Trazabilidad(MantenerAutenticacion(FiltrarHeaders(RequestHeaders(req)), RequestHeaders(req)), u)

\* params=dict(request.query_params): one value per key, the last
Params(req) == DictFromItems(req.query)

\* the headers proxy_request_publico sends
HeadersPublico(req) == FiltrarHeaders(RequestHeaders(req))

(***************************************************************************)
(* The response to an outcome of the forward call.                         *)
(***************************************************************************)
\* response.json() for every body
Contenido_SinVacio(o) == o.json

\* "response.json() if response.content else {}"; json() raises on no JSON
Contenido(o) == IF o.json = Ninguno THEN JDict(<< >>) ELSE o.json

\* a handler that sends the call again after a timeout
TrasReenvio_Reintento(o) == IF IsTimeoutException(o) THEN "cuerpo" ELSE "done"

\* where a handler stands once its forward call has ended: it returns the
\* response or raises, on every outcome
TrasReenvio(o) == "done"

\* str(e) of the exception an outcome raises in the try block: a timeout
\* of httpx carries no message
ExcText(o) ==
    IF o.tipo = "response" THEN "Expecting value: line 1 column 1 (char 0)"
    ELSE IF o.tipo = "ReadError" THEN "[Errno 104] Connection reset by peer"
    ELSE IF o.tipo = "ConnectError" THEN "All connection attempts failed"
    ELSE ""

\* headers=dict(response.headers)
HeadersRespuesta(o) == DictFromItems(o.headers)

\* proxy_request without its "except httpx.ConnectError" clause
RespuestaProxy_SinConnectError(o) ==
    IF o.tipo = "response" /\ o.json # JInvalid
    THEN Upstream(o.status, Contenido(o), HeadersRespuesta(o))
    ELSE IF IsTimeoutException(o) THEN Error(504, "Timeout del servicio")
    ELSE ErrorExc(500, "Error interno del servidor: ", ExcText(o))

RespuestaProxy(o) ==
    IF o.tipo = "response" /\ o.json # JInvalid
    THEN Upstream(o.status, Contenido(o), HeadersRespuesta(o))
    ELSE IF IsConnectError(o) THEN Error(503, "no disponible temporalmente")
    ELSE IF IsTimeoutException(o) THEN Error(504, "Timeout del servicio")
    ELSE ErrorExc(500, "Error interno del servidor: ", ExcText(o))

RespuestaPublico(o) ==
    IF o.tipo = "response" /\ o.json # JInvalid
    THEN Upstream(o.status, Contenido(o), HeadersRespuesta(o))
    ELSE IF IsConnectError(o) THEN Error(503, "Servicio no disponible")
    ELSE Error(500, "Error interno del servidor")


(***************************************************************************)
(* The authentication service: its tokens, its users collection and the    *)
(* functions of AuthService and UserRepository.                            *)
(***************************************************************************)
\* str(ObjectId) of the n-th document inserted
Oid(n) ==
    CASE n = 1 -> "64b000000000000000000001"
      [] n = 2 -> "64b000000000000000000002"
      [] n = 3 -> "64b000000000000000000003"
      [] OTHER -> "64b000000000000000000004"

\* ObjectId.is_valid of a string
ObjectIdValid(id) == id \in {Oid(n) : n \in 1..4}

\* a JWT: whether its signature is made with JWT_SECRET and HS256, whether
\* its exp has passed, and its claims
Jwt(firma, expirado, payload) ==
    [forma |-> "jwt", firma |-> firma, expirado |-> expirado, payload |-> payload]

\* a bearer credential that is no JWT, and a request with no credential
Malformado == [forma |-> "malformed", firma |-> "", expirado |-> FALSE, payload |-> << >>]

SinCredencial == [forma |-> "none", firma |-> "", expirado |-> FALSE, payload |-> << >>]

\* the user_id claims of the tokens presented
TokenUserIds == {Oid(n) : n \in 1..(MaxUsers + 1)} \cup {"7"}

\* the credentials presented to /api/v1/auth/me
Credenciales ==
    {Jwt(f, x, p) : f \in {"ok", "mala"}, x \in BOOLEAN,
                    p \in {<< >>} \cup {<< <<"user_id", i>> >> : i \in TokenUserIds}}
    \cup {Malformado, SinCredencial}

\* the bodies of POST /api/v1/auth/register
UserCreates ==
    [email : {"ana@pos.com", "luis@pos.com"}, name : {"N"}, role : {"vendedor", "admin"},
     password : {"secreta"}]

\* collection.find_one({"email": email}), {"_id": ObjectId(user_id)}: the
\* matching documents
FindUserByEmail(coll, email) == {i \in 1..Len(coll) : coll[i].email = email}

FindUserById(coll, user_id) ==
    IF ObjectIdValid(user_id) THEN {i \in 1..Len(coll) : coll[i].id = user_id} ELSE {}

\* AuthService.create_token
CreateToken(user) ==
    Jwt("ok", FALSE,
        << <<"user_id", user.id>>, <<"email", user.email>>, <<"role", user.role>> >>)

\* jwt.decode that does not look at exp
VerifyToken_SinExp(tok) ==
    IF tok.forma # "jwt" \/ tok.firma # "ok"
    THEN [ok |-> FALSE, status |-> 401, detail |-> "Token inválido", payload |-> << >>]
    ELSE [ok |-> TRUE, status |-> 0, detail |-> "", payload |-> tok.payload]

\* AuthService.verify_token: jwt.decode checks the form and the signature,
\* then exp
VerifyToken(tok) ==
    IF tok.forma # "jwt" \/ tok.firma # "ok"
    THEN [ok |-> FALSE, status |-> 401, detail |-> "Token inválido", payload |-> << >>]
    ELSE IF tok.expirado
    THEN [ok |-> FALSE, status |-> 401, detail |-> "Token expirado", payload |-> << >>]
    ELSE [ok |-> TRUE, status |-> 0, detail |-> "", payload |-> tok.payload]

\* UserResponse of a document of the collection
UserResponse(user) ==
    JDict(<< <<"email", user.email>>, <<"name", user.name>>, <<"role", user.role>>,
             <<"id", user.id>>, <<"created_at", user.created_at>>,
             <<"is_active", IF user.is_active THEN "true" ELSE "false">> >>)

\* {"detail": detail}
Detalle(detail) == JDict(<< <<"detail", detail>> >>)

(***************************************************************************)
(* salud(): the probes of the services and the report built from them.     *)
(***************************************************************************)
\* timeout=5.0 of a probe, in seconds
ProbeTimeout == 5

\* the outcomes of GET {url}/health
ProbeOutcomes ==
    { Response(200, Ninguno), Response(500, Ninguno), Failure("ConnectError"),
      Failure("ReadTimeout") }

\* the least time a probe with this outcome takes, in whole seconds
Tiempo(o) == IF IsTimeoutException(o) THEN ProbeTimeout ELSE 0

\* the entry of one service with every response called "saludable"
EstadoServicio_SinStatus(o) ==
    IF o.tipo = "response"
    THEN [estado |-> "saludable", status_code |-> o.status]
    ELSE [estado |-> "no disponible", error |-> ExcText(o)]

\* the entry of one service in servicios_status
EstadoServicio(o) ==
    IF o.tipo = "response"
    THEN [estado |-> IF o.status = 200 THEN "saludable" ELSE "error",
          status_code |-> o.status]
    ELSE [estado |-> "no disponible", error |-> ExcText(o)]

\* the dictionary salud returns, which FastAPI sends with status 200
Reporte(servicios_status) ==
    [status |-> 200, origen |-> "local", detail |-> "", exc |-> "",
     content |-> JDict(<< <<"estado", "saludable">>, <<"servicio", "API Gateway">>,
                          <<"timestamp", "now">>, <<"servicios", servicios_status>> >>),
     headers |-> << >>]

\* the dictionary raiz returns, which FastAPI sends with status 200
Raiz ==
    [status |-> 200, origen |-> "local", detail |-> "", exc |-> "",
     content |-> JDict(<< <<"servicio", "API Gateway POS Core">>, <<"estado", "Funcionando">>,
                          <<"version", "1.0.0">>, <<"timestamp", "now">>,
                          <<"microservicios", DictKeys(servicios)>> >>),
     headers |-> << >>]

(***************************************************************************)
(* The sales service: crear_venta and the two adapters it calls.           *)
(***************************************************************************)
\* the calls of crear_venta in flight
Corridas == {"v1", "v2"}

\* the products the product service knows, and their stock at start
Catalogo == {"p1", "p2"}

StockInicial == [p \in Catalogo |-> IF p = "p1" THEN 3 ELSE 1]

\* the items of the sales: producto_id and cantidad (gt=0)
ItemPool ==
    { [producto_id |-> "p1", cantidad |-> 2], [producto_id |-> "p2", cantidad |-> 2],
      [producto_id |-> "p9", cantidad |-> 1] }

\* venta.items (min_items=1)
ItemLists == UNION {[1..n -> ItemPool] : n \in 1..MaxItems}

\* the keys of the document find_one returns, and the fields Venta requires
CamposVentaCreada ==
    {"_id", "cliente", "items", "total", "fecha_creacion", "vendedor", "estado"}

CamposVenta == {"cliente", "items", "total", "id", "fecha_creacion", "vendedor", "estado"}

\* the status of the response once the sale is stored and the stock
\* updates are done: Venta(**venta_creada) raises when a field is missing
StatusCreada == IF CamposVenta \subseteq CamposVentaCreada THEN 201 ELSE 500

\* ProductoService.obtener_producto: the product with its stock when the
\* product service answers 200, None otherwise
ObtenerProducto(producto_id, ok) ==
    IF ok /\ producto_id \in Catalogo
    THEN [existe |-> TRUE, stock |-> stock[producto_id]]
    ELSE [existe |-> FALSE, stock |-> 0]

\* a check that lets every quantity pass
StockSuficiente_Siempre(producto, cantidad) == TRUE

\* the negation of 'producto["stock"] < item.cantidad'
StockSuficiente(producto, cantidad) == ~(producto.stock < cantidad)

SinVenta ==
    [pc |-> "idle", items |-> << >>, i |-> 0, nuevo_stock |-> 0, status |-> 0,
     detail |-> "", insertada |-> FALSE, lecturas |-> 0, puts |-> 0]

InitVentas ==
    /\ stock = StockInicial
    /\ ventasDb = << >>
    /\ venta = [r \in Corridas |-> SinVenta]

(***************************************************************************)
(* The product service: ProductoDAO over the productos collection, and the *)
(* endpoints that reach it through ProductoService.                        *)
(***************************************************************************)
\* the most documents of the productos collection
MaxProductos == 2

\* the highest stock an adjustment is let reach
MaxStock == 3

Codigos == {"A1", "B2"}

\* producto_data of ProductoDAO.crear: a missing codigo is ""
ProductoDatas == [codigo : Codigos \cup {""}, stock : 0..1]

\* the bodies of POST /api/v1/productos: stock_inicial has ge=0
ProductoCrears == [sku : Codigos, stock_inicial : 0..1]

\* the producto_id parameters
ProductoIds == {Oid(n) : n \in 1..(MaxProductos + 1)} \cup {"7"}

\* the cantidad parameters
Cantidades == {-2, -1, 1}

\* find_one({'codigo': codigo}): the matching documents
FindCodigo(coll, codigo) == {i \in 1..Len(coll) : coll[i].codigo = codigo}

\* find_one({'codigo': codigo, 'activo': True})
FindCodigoActivo(coll, codigo) ==
    {i \in 1..Len(coll) : coll[i].codigo = codigo /\ coll[i].activo}

\* the documents matched by {'_id': ObjectId(producto_id)}
FindId(coll, producto_id) == {i \in 1..Len(coll) : coll[i].id = producto_id}

\* find_one({'_id': ObjectId(producto_id), 'activo': True})
FindIdActivo(coll, producto_id) ==
    {i \in 1..Len(coll) : coll[i].id = producto_id /\ coll[i].activo}

\* what a DAO method returns or raises, and the collection it leaves
Dao(tipo, coll) == [tipo |-> tipo, coll |-> coll]

\* ProductoDAO.obtener_por_codigo
DaoObtenerPorCodigo(coll, codigo) ==
    IF FindCodigoActivo(coll, codigo) = {} THEN Dao("None", coll) ELSE Dao("dict", coll)

\* ProductoDAO.crear
DaoCrear(coll, producto_data) ==
    IF producto_data.codigo = "" THEN Dao("ValueError", coll)
    ELSE IF FindCodigo(coll, producto_data.codigo) # {} THEN Dao("ValueError", coll)
    ELSE Dao("dict",
             Append(coll, [id |-> Oid(Len(coll) + 1), codigo |-> producto_data.codigo,
                           stock |-> producto_data.stock, activo |-> TRUE]))

\* ProductoDAO.eliminar: the soft delete; modified_count is 0 when the
\* document is missing or already inactive
DaoEliminar(coll, producto_id) ==
    IF ~ObjectIdValid(producto_id) THEN Dao("ValueError", coll)
    ELSE IF FindIdActivo(coll, producto_id) = {} THEN Dao("bool", coll)
    ELSE Dao("bool",
             [i \in 1..Len(coll) |->
                 IF coll[i].id = producto_id THEN [coll[i] EXCEPT !.activo = FALSE]
                 ELSE coll[i]])

\* an adjustment that is let through whatever its result
StockNegativo_Nunca(nuevo_stock) == FALSE

\* 'nuevo_stock < 0'
StockNegativo(nuevo_stock) == nuevo_stock < 0

\* ProductoDAO.actualizar_stock
DaoActualizarStock(coll, producto_id, cantidad) ==
    IF ~ObjectIdValid(producto_id) THEN Dao("ValueError", coll)
    ELSE IF FindIdActivo(coll, producto_id) = {} THEN Dao("None", coll)
    ELSE LET producto == coll[CHOOSE i \in FindIdActivo(coll, producto_id) : TRUE]
             nuevo_stock == producto.stock + cantidad
         IN IF StockNegativo(nuevo_stock) THEN Dao("ValueError", coll)
            ELSE Dao("dict",
                     [i \in 1..Len(coll) |->
                         IF coll[i].id = producto_id
                         THEN [coll[i] EXCEPT !.stock = nuevo_stock]
                         ELSE coll[i]])

\* 'await v' of what a DAO method returned: a dict, None and a bool are no
\* awaitables, and the expression raises TypeError
Await(r) == IF r.tipo \in {"dict", "None", "bool"} THEN Dao("TypeError", r.coll) ELSE r

\* ProductoService.actualizar_stock under the endpoint: the ValueError of
\* the DAO is raised inside the call and becomes 400, a TypeError is neither
\* ValueError nor DAOError and reaches the endpoint's 'except Exception'
StatusActualizarStock(r) ==
    IF r.tipo = "ValueError" THEN 400
    ELSE IF Await(r).tipo = "TypeError" THEN 500
    ELSE IF r.tipo = "None" THEN 404
    ELSE 200

\* ProductoService.crear_producto under the endpoint: the lookup by SKU is
\* awaited outside any try
StatusCrearProducto(existente) ==
    IF Await(existente).tipo = "TypeError" THEN 500
    ELSE IF existente.tipo = "dict" THEN 400
    ELSE 201

\* the service has answered nothing yet
SinProd ==
    [op |-> "", producto_id |-> "", codigo |-> "", cantidad |-> 0, dao |-> "",
     status |-> 0, antes |-> << >>]

InitProductos ==
    /\ productos = << >>
    /\ prodRespuesta = SinProd

(***************************************************************************)
(* The print service: the Redis list cola_impresion, encolar_trabajo and   *)
(* procesar_impresion of ServicioImpresion, and the endpoints.             *)
(***************************************************************************)
\* the most print jobs
MaxTrabajos == 2

Trabajos == 1..MaxTrabajos

Tipos == {"ticket_venta", "reporte"}

\* datos: ticket.dict() and reporte.dict() hold datetime objects (fecha,
\* fecha_inicio, fecha_fin); a dict of JSON values is what a caller of the
\* class may pass
DatosDatetime == "dict with datetime"

DatosJson == "dict of JSON values"

\* datetime.now().isoformat() at the moments it is called
Instantes == {"T1", "T2"}

\* f"impresion_{datetime.now().timestamp()}" of the j-th job
IdTrabajo(j) == IF j = 1 THEN "impresion_1" ELSE IF j = 2 THEN "impresion_2" ELSE "impresion_3"

\* the dict encolar_trabajo builds
Entrada(trabajo_id, tipo, datos, ts) ==
    << <<"id", trabajo_id>>, <<"tipo", tipo>>, <<"datos", datos>>, <<"timestamp", ts>>,
       <<"estado", "pendiente">> >>

\* the dict the endpoints hand to procesar_impresion
TrabajoEndpoint(trabajo_id, tipo, datos, ts) ==
    << <<"id", trabajo_id>>, <<"tipo", tipo>>, <<"datos", datos>>, <<"timestamp", ts>> >>

\* json.dumps: the text of a dict, keys in insertion order; a datetime is
\* not serializable
JsonDumps(d) ==
    IF DictGet(d, "datos", "") = DatosDatetime
    THEN [tipo |-> "TypeError", texto |-> << >>]
    ELSE [tipo |-> "str", texto |-> d]

\* lpush(key, value)
Lpush(lista, value) == <<value>> \o lista

\* lrem(key, 1, value): the first element equal to value, head first, goes
Lrem(lista, value) ==
    LET hits == {i \in 1..Len(lista) : lista[i] = value}
    IN IF hits = {} THEN lista
       ELSE LET k == CHOOSE i \in hits : \A h \in hits : i <= h
            IN SubSeq(lista, 1, k - 1) \o SubSeq(lista, k + 1, Len(lista))

\* ServicioImpresion.encolar_trabajo: the list it leaves, or the TypeError
\* of json.dumps
EncolarTrabajo(cola, trabajo_id, tipo, datos, ts) ==
    LET texto == JsonDumps(Entrada(trabajo_id, tipo, datos, ts))
    IN IF texto.tipo = "TypeError" THEN [tipo |-> "TypeError", cola |-> cola]
       ELSE [tipo |-> "str", cola |-> Lpush(cola, texto)]

SinTrabajo == [pc |-> "none", entrada |-> << >>, trabajo |-> << >>, status |-> 0]

InitImpresion ==
    /\ cola_impresion = << >>
    /\ trabajos = [j \in Trabajos |-> SinTrabajo]

(***************************************************************************)
(* The inventory service's SujetoStock: the observer list.                 *)
(***************************************************************************)
Observadores == {"NotificadorLog", "NotificadorEmail", "Otro"}

\* an observer that is taken for absent
Presente_Nunca(lista, observador) == FALSE

\* 'observador in self._observadores'
Presente(lista, observador) == \E i \in 1..Len(lista) : lista[i] = observador

\* SujetoStock.agregar_observador
AgregarObservador(lista, observador) ==
    IF ~Presente(lista, observador) THEN Append(lista, observador) ELSE lista

\* SujetoStock.eliminar_observador: list.remove takes the first occurrence
EliminarObservador(lista, observador) ==
    IF Presente(lista, observador)
    THEN LET k == CHOOSE i \in 1..Len(lista) :
                      lista[i] = observador /\ \A h \in 1..(i - 1) : lista[h] # observador
         IN SubSeq(lista, 1, k - 1) \o SubSeq(lista, k + 1, Len(lista))
    ELSE lista

RECURSIVE NotificarObservadores(_, _)
\* SujetoStock.notificar_observadores: the calls of actualizar, in order;
\* an exception of a call is logged and the loop goes on
NotificarObservadores(lista, fallan) ==
    IF lista = << >> THEN << >>
    ELSE <<[observador |-> Head(lista), raised |-> Head(lista) \in fallan]>>
         \o NotificarObservadores(Tail(lista), fallan)

\* inicializar_observadores, run when the module is imported
ObservadoresIniciales ==
    AgregarObservador(AgregarObservador(<< >>, "NotificadorLog"), "NotificadorEmail")

SinNotificacion ==
    [op |-> "", observador |-> "", antes |-> << >>, llamadas |-> << >>]

InitObservador ==
    /\ observadores = ObservadoresIniciales
    /\ notificacion = SinNotificacion

InitResto == InitProductos /\ InitImpresion /\ InitObservador

(***************************************************************************)
(* The state machine.                                                      *)
(***************************************************************************)
SinRequest == [method |-> "", path |-> << >>, headers |-> << >>, query |-> << >>, body |-> ""]

SinHandler == [endpoint |-> "", servicio |-> "", path |-> << >>]

SinOutcome == Failure("none")

\* servicios_status = {}, no probe answered and no time gone
SinSalud == [servicios_status |-> << >>, probes |-> << >>, elapsed |-> 0]

\* the authentication service has answered nothing yet
SinMe ==
    [endpoint |-> "", credencial |-> SinCredencial, status |-> 0, json |-> Ninguno,
     access_token |-> SinCredencial]

Init ==
    /\ pc = [t \in Tareas |-> "idle"]
    /\ request = [t \in Tareas |-> SinRequest]
    /\ handler = [t \in Tareas |-> SinHandler]
    /\ usuario = [t \in Tareas |-> Ninguno]
    /\ authOutcome = [t \in Tareas |-> SinOutcome]
    /\ llamadas = [t \in Tareas |-> << >>]
    /\ fwdOutcome = [t \in Tareas |-> SinOutcome]
    /\ conexion = [t \in Tareas |-> "none"]
    /\ respuesta = [t \in Tareas |-> SinRespuesta]
    /\ salud = [t \in Tareas |-> SinSalud]
    /\ servicios = SERVICIOS
    /\ users = << >>
    /\ meRespuesta = SinMe
    /\ InitVentas
    /\ InitResto

\* an HTTP request arrives and the router picks its endpoint: the path
\* parameters of proxy_request, the fixed arguments of the public proxies
Recibir(t, req) ==
    /\ request' = [request EXCEPT ![t] = req]
    /\ LET endpoint == Route(req.method, req.path)
       IN CASE endpoint = "proxy_request" ->
                 /\ handler' = [handler EXCEPT ![t] =
                        [endpoint |-> endpoint, servicio |-> req.path[2],
                         path |-> SubSeq(req.path, 3, Len(req.path))]]
                 /\ pc' = [pc EXCEPT ![t] = "security"]
                 /\ UNCHANGED respuesta
            [] endpoint = "login_proxy" ->
                 /\ handler' = [handler EXCEPT ![t] =
                        [endpoint |-> endpoint, servicio |-> "auth",
                         path |-> <<"api", "v1", "auth", "login">>]]
                 /\ pc' = [pc EXCEPT ![t] = "cuerpo"]
                 /\ UNCHANGED respuesta
            [] endpoint = "registro_proxy" ->
                 /\ handler' = [handler EXCEPT ![t] =
                        [endpoint |-> endpoint, servicio |-> "auth",
                         path |-> <<"api", "v1", "auth", "registro">>]]
                 /\ pc' = [pc EXCEPT ![t] = "cuerpo"]
                 /\ UNCHANGED respuesta
            [] endpoint = "raiz" ->
                 /\ handler' = [handler EXCEPT ![t] = [SinHandler EXCEPT !.endpoint = endpoint]]
                 /\ pc' = [pc EXCEPT ![t] = "done"]
                 /\ respuesta' = [respuesta EXCEPT ![t] = Raiz]
            [] endpoint \in {"salud", "health_completo"} ->
                 /\ handler' = [handler EXCEPT ![t] = [SinHandler EXCEPT !.endpoint = endpoint]]
                 /\ pc' = [pc EXCEPT ![t] = "salud"]
                 /\ UNCHANGED respuesta
            [] OTHER ->
                 /\ handler' = [handler EXCEPT ![t] = [SinHandler EXCEPT !.endpoint = endpoint]]
                 /\ pc' = [pc EXCEPT ![t] = "done"]
                 /\ respuesta' = [respuesta EXCEPT ![t] =
                        Error(IF endpoint = "405" THEN 405 ELSE 404, "router")]
    /\ UNCHANGED <<usuario, authOutcome, llamadas, fwdOutcome, conexion, salud, servicios, otros>>

Receive(t) ==
    pc[t] = "idle" /\ \E req \in Requests \cup HealthRequests \cup RootRequests : Recibir(t, req)

\* Depends(security): HTTPBearer rejects the request, or hands the token
\* to validar_token, which sends it to the identity endpoint
Security(t) ==
    /\ pc[t] = "security"
    /\ IF HasBearer(request[t])
       THEN /\ llamadas' = [llamadas EXCEPT ![t] = Append(@,
                   Call("validate", "auth", <<"api", "v1", "auth", "me">>, "GET",
                        << <<"Authorization", <<"Bearer", BearerToken(request[t])>> >> >>,
                        << >>, ""))]
            /\ pc' = [pc EXCEPT ![t] = "validar"]
            /\ UNCHANGED respuesta
       ELSE /\ \E st \in BearerRejectStatus :
                   respuesta' = [respuesta EXCEPT ![t] = Error(st, "Not authenticated")]
            /\ pc' = [pc EXCEPT ![t] = "done"]
            /\ UNCHANGED llamadas
    /\ UNCHANGED <<request, handler, usuario, authOutcome, fwdOutcome, conexion, salud, servicios, otros>>

\* the validation call ends; obtener_usuario_actual raises 401 or returns
ObtenerUsuarioActual(t, o) ==
    /\ pc[t] = "validar"
    /\ authOutcome' = [authOutcome EXCEPT ![t] = o]
    /\ usuario' = [usuario EXCEPT ![t] = ValidarToken(o)]
    /\ IF UsuarioRechazado(ValidarToken(o))
       THEN /\ respuesta' = [respuesta EXCEPT ![t] = Error(401, "Token invalido o expirado")]
            /\ pc' = [pc EXCEPT ![t] = "done"]
       ELSE /\ pc' = [pc EXCEPT ![t] = "cuerpo"]
            /\ UNCHANGED respuesta
    /\ UNCHANGED <<request, handler, llamadas, fwdOutcome, conexion, salud, servicios, otros>>

\* one usuario for the module, that of the first run
UsuarioDe_Compartido(t) == usuario["t1"]

\* the parameter usuario of this call of proxy_request
UsuarioDe(t) == usuario[t]

\* the body of proxy_request up to the forward call
ProxyRequest(t) ==
    /\ pc[t] = "cuerpo"
    /\ handler[t].endpoint = "proxy_request"
    /\ IF ~Registrado(handler[t].servicio)
       THEN /\ respuesta' = [respuesta EXCEPT ![t] = Error(404, "Servicio no encontrado")]
            /\ pc' = [pc EXCEPT ![t] = "done"]
            /\ UNCHANGED <<llamadas, conexion>>
       ELSE IF UsuarioDe(t).tipo # "dict"
       THEN \* usuario.get raises AttributeError outside the try
            /\ respuesta' = [respuesta EXCEPT ![t] =
                   [Error(500, "Internal Server Error") EXCEPT !.origen = "server"]]
            /\ pc' = [pc EXCEPT ![t] = "done"]
            /\ UNCHANGED <<llamadas, conexion>>
       ELSE /\ llamadas' = [llamadas EXCEPT ![t] = Append(@,
                   Call("forward", handler[t].servicio, handler[t].path, request[t].method,
                        HeadersProxy(request[t], UsuarioDe(t)), Params(request[t]),
                        request[t].body))]
            /\ conexion' = [conexion EXCEPT ![t] = "open"]
            /\ pc' = [pc EXCEPT ![t] = "reenvio"]
            /\ UNCHANGED respuesta
    /\ UNCHANGED <<request, handler, usuario, authOutcome, fwdOutcome, salud, servicios, otros>>

\* the forward call of proxy_request ends: the response or the error is
\* mapped, and leaving "async with" closes the client
ProxyRequestFin(t, o) ==
    /\ pc[t] = "reenvio"
    /\ handler[t].endpoint = "proxy_request"
    /\ fwdOutcome' = [fwdOutcome EXCEPT ![t] = o]
    /\ respuesta' = [respuesta EXCEPT ![t] = RespuestaProxy(o)]
    /\ conexion' = [conexion EXCEPT ![t] = "closed"]
    /\ pc' = [pc EXCEPT ![t] = TrasReenvio(o)]
    /\ UNCHANGED <<request, handler, usuario, authOutcome, llamadas, salud, servicios, otros>>

\* the response is sent; the run ends and the next request may come
Responder(t) ==
    /\ pc[t] = "done"
    /\ pc' = [pc EXCEPT ![t] = "idle"]
    /\ request' = [request EXCEPT ![t] = SinRequest]
    /\ handler' = [handler EXCEPT ![t] = SinHandler]
    /\ usuario' = [usuario EXCEPT ![t] = Ninguno]
    /\ authOutcome' = [authOutcome EXCEPT ![t] = SinOutcome]
    /\ llamadas' = [llamadas EXCEPT ![t] = << >>]
    /\ fwdOutcome' = [fwdOutcome EXCEPT ![t] = SinOutcome]
    /\ conexion' = [conexion EXCEPT ![t] = "none"]
    /\ respuesta' = [respuesta EXCEPT ![t] = SinRespuesta]
    /\ salud' = [salud EXCEPT ![t] = SinSalud]
    /\ UNCHANGED <<servicios, otros>>

\* salud(), which health_completo awaits: one turn of its loop over
\* SERVICIOS, the probe of the next service awaited before the following
\* one is sent; after the last probe the report is returned
SaludProbe(t, o) ==
    /\ pc[t] = "salud"
    /\ LET i == Len(salud[t].servicios_status) + 1
           nombre == servicios[i][1]
           estado == Append(salud[t].servicios_status, <<nombre, EstadoServicio(o)>>)
       IN /\ llamadas' = [llamadas EXCEPT ![t] =
                 Append(@, Call("health", nombre, <<"health">>, "GET", << >>, << >>, ""))]
          /\ salud' = [salud EXCEPT ![t] =
                 [servicios_status |-> estado, probes |-> Append(@.probes, o),
                  elapsed |-> @.elapsed + Tiempo(o)]]
          /\ IF i = Len(servicios)
             THEN /\ respuesta' = [respuesta EXCEPT ![t] = Reporte(estado)]
                  /\ pc' = [pc EXCEPT ![t] = "done"]
             ELSE UNCHANGED <<respuesta, pc>>
    /\ UNCHANGED <<request, handler, usuario, authOutcome, fwdOutcome, conexion, servicios, otros>>

\* the gateway as deployed: every request comes through the router
Next ==
    \E t \in Tareas :
        \/ Receive(t)
        \/ Security(t)
        \/ \E o \in AuthOutcomes : ObtenerUsuarioActual(t, o)
        \/ ProxyRequest(t)
        \/ \E o \in BackendOutcomes : ProxyRequestFin(t, o)
        \/ Responder(t)
        \/ \E o \in ProbeOutcomes : SaludProbe(t, o)

Spec == Init /\ [][Next]_vars

(***************************************************************************)
(* The public proxies called as functions.  The router never reaches them  *)
(* (see Route), so their behaviour is that of login_proxy(request) and     *)
(* registro_proxy(request) called with a request of any method.            *)
(***************************************************************************)
PublicEndpoints == {"login_proxy", "registro_proxy"}

PublicRequests ==
    [method : Methods,
     path : {<<"api", "auth", "login">>, <<"api", "auth", "registro">>},
     headers : HeaderLists, query : {<< >>}, body : Bodies]

InvocarPublico(t, endpoint, req) ==
    /\ request' = [request EXCEPT ![t] = req]
    /\ handler' = [handler EXCEPT ![t] =
           [endpoint |-> endpoint, servicio |-> "auth",
            path |-> IF endpoint = "login_proxy" THEN <<"api", "v1", "auth", "login">>
                     ELSE <<"api", "v1", "auth", "registro">>]]
    /\ pc' = [pc EXCEPT ![t] = "cuerpo"]
    /\ UNCHANGED <<usuario, authOutcome, llamadas, fwdOutcome, conexion, respuesta, salud, servicios, otros>>

LlamarPublico(t) ==
    /\ pc[t] = "idle"
    /\ \E e \in PublicEndpoints, req \in PublicRequests : InvocarPublico(t, e, req)

\* the body of proxy_request_publico up to the forward call
ProxyRequestPublico(t) ==
    /\ pc[t] = "cuerpo"
    /\ handler[t].endpoint \in PublicEndpoints
    /\ IF ~Registrado(handler[t].servicio)
       THEN /\ respuesta' = [respuesta EXCEPT ![t] = Error(404, "Servicio no encontrado")]
            /\ pc' = [pc EXCEPT ![t] = "done"]
            /\ UNCHANGED <<llamadas, conexion>>
       ELSE /\ llamadas' = [llamadas EXCEPT ![t] = Append(@,
                   Call("forward", handler[t].servicio, handler[t].path, request[t].method,
                        HeadersPublico(request[t]), Params(request[t]), request[t].body))]
            /\ conexion' = [conexion EXCEPT ![t] = "open"]
            /\ pc' = [pc EXCEPT ![t] = "reenvio"]
            /\ UNCHANGED respuesta
    /\ UNCHANGED <<request, handler, usuario, authOutcome, fwdOutcome, salud, servicios, otros>>

\* the forward call of proxy_request_publico ends
ProxyRequestPublicoFin(t, o) ==
    /\ pc[t] = "reenvio"
    /\ handler[t].endpoint \in PublicEndpoints
    /\ fwdOutcome' = [fwdOutcome EXCEPT ![t] = o]
    /\ respuesta' = [respuesta EXCEPT ![t] = RespuestaPublico(o)]
    /\ conexion' = [conexion EXCEPT ![t] = "closed"]
    /\ pc' = [pc EXCEPT ![t] = TrasReenvio(o)]
    /\ UNCHANGED <<request, handler, usuario, authOutcome, llamadas, salud, servicios, otros>>

NextHandlers ==
    \E t \in Tareas :
        \/ Receive(t)
        \/ Security(t)
        \/ \E o \in AuthOutcomes : ObtenerUsuarioActual(t, o)
        \/ ProxyRequest(t)
        \/ \E o \in BackendOutcomes : ProxyRequestFin(t, o)
        \/ Responder(t)
        \/ LlamarPublico(t)
        \/ ProxyRequestPublico(t)
        \/ \E o \in BackendOutcomes : ProxyRequestPublicoFin(t, o)
        \/ \E o \in ProbeOutcomes : SaludProbe(t, o)

SpecHandlers == Init /\ [][NextHandlers]_vars


(***************************************************************************)
(* Two requests in flight at once: the event loop runs the handlers of two *)
(* requests in turns, switching at their awaits.                           *)
(***************************************************************************)
TareasDos == {"t1", "t2"}

InitDos ==
    /\ pc = [t \in TareasDos |-> "idle"]
    /\ request = [t \in TareasDos |-> SinRequest]
    /\ handler = [t \in TareasDos |-> SinHandler]
    /\ usuario = [t \in TareasDos |-> Ninguno]
    /\ authOutcome = [t \in TareasDos |-> SinOutcome]
    /\ llamadas = [t \in TareasDos |-> << >>]
    /\ fwdOutcome = [t \in TareasDos |-> SinOutcome]
    /\ conexion = [t \in TareasDos |-> "none"]
    /\ respuesta = [t \in TareasDos |-> SinRespuesta]
    /\ salud = [t \in TareasDos |-> SinSalud]
    /\ servicios = SERVICIOS
    /\ users = << >>
    /\ meRespuesta = SinMe
    /\ InitVentas
    /\ InitResto

\* the requests, and the outcomes of the calls, of the runs in flight
RequestsDos ==
    { [method |-> "GET", path |-> <<"api", "ventas", "api", "v1", "ventas">>,
       headers |-> << <<"Authorization", "Bearer tokA">>, <<"X-User-Id", "mallory">> >>,
       query |-> << <<"q", "1">> >>, body |-> ""],
      [method |-> "POST", path |-> <<"api", "nomina", "login">>,
       headers |-> << <<"authorization", "bearer tokB">> >>, query |-> << >>, body |-> ""],
      [method |-> "GET", path |-> <<"api", "ventas", "api", "v1", "ventas">>,
       headers |-> << >>, query |-> << >>, body |-> ""],
      [method |-> "GET", path |-> << >>, headers |-> << >>, query |-> << >>, body |-> ""],
      [method |-> "GET", path |-> <<"health">>, headers |-> << >>, query |-> << >>,
       body |-> ""] }

PublicRequestsDos ==
    { [method |-> "POST", path |-> <<"api", "auth", "login">>,
       headers |-> << <<"X-User-Id", "mallory">> >>, query |-> << >>, body |-> ""] }

AuthOutcomesDos ==
    {Response(200, b) : b \in Users}
    \cup {Response(401, JDict(<< <<"detail", "Token invalido">> >>))}

BackendOutcomesDos ==
    { ResponseH(200, JList(<<"v1">>), << <<"content-type", "application/json">> >>),
      Failure("ConnectError"), Failure("ReadTimeout") }

ProbeOutcomesDos == { Response(200, Ninguno), Failure("ConnectError") }

ReceiveDos(t) == pc[t] = "idle" /\ \E req \in RequestsDos : Recibir(t, req)

LlamarPublicoDos(t) ==
    /\ pc[t] = "idle"
    /\ \E e \in PublicEndpoints, req \in PublicRequestsDos : InvocarPublico(t, e, req)

NextDos ==
    \E t \in TareasDos :
        \/ ReceiveDos(t)
        \/ Security(t)
        \/ \E o \in AuthOutcomesDos : ObtenerUsuarioActual(t, o)
        \/ ProxyRequest(t)
        \/ \E o \in BackendOutcomesDos : ProxyRequestFin(t, o)
        \/ Responder(t)
        \/ LlamarPublicoDos(t)
        \/ ProxyRequestPublico(t)
        \/ \E o \in BackendOutcomesDos : ProxyRequestPublicoFin(t, o)
        \/ \E o \in ProbeOutcomesDos : SaludProbe(t, o)

SpecDos == InitDos /\ [][NextDos]_vars

(***************************************************************************)
(* The authentication service on its own: users register and present      *)
(* credentials to the identity endpoint.                                   *)
(***************************************************************************)
gateway ==
    <<pc, request, handler, usuario, authOutcome, llamadas, fwdOutcome, conexion,
      respuesta, salud, servicios>>

\* what the authentication service does not touch
fueraDeAuth == <<gateway, ventasVars, restoVars>>

\* POST /api/v1/auth/register: register_user, then create_token
Register(user_data) ==
    /\ Len(users) < MaxUsers
    /\ IF FindUserByEmail(users, user_data.email) # {}
       THEN /\ meRespuesta' =
                   [endpoint |-> "register", credencial |-> SinCredencial, status |-> 400,
                    json |-> Detalle("El usuario ya existe"), access_token |-> SinCredencial]
            /\ UNCHANGED users
       ELSE LET user == [id |-> Oid(Len(users) + 1), email |-> user_data.email,
                         name |-> user_data.name, role |-> user_data.role,
                         created_at |-> "now", is_active |-> TRUE,
                         password |-> user_data.password]
            IN /\ users' = Append(users, user)
               /\ meRespuesta' =
                      [endpoint |-> "register", credencial |-> SinCredencial, status |-> 201,
                       json |-> UserResponse(user), access_token |-> CreateToken(user)]
    /\ UNCHANGED fueraDeAuth

\* the answer of GET /api/v1/auth/me to a credential
Me(cred) ==
    LET v == VerifyToken(cred)
    IN IF ~v.ok THEN [status |-> v.status, json |-> Detalle(v.detail)]
       ELSE IF ~DictHas(v.payload, "user_id")
       THEN [status |-> 500, json |-> Detalle("Error interno del servidor: 'user_id'")]
       ELSE LET found == FindUserById(users, DictGet(v.payload, "user_id", ""))
            IN IF found = {}
               THEN [status |-> 404, json |-> Detalle("Usuario no encontrado")]
               ELSE [status |-> 200, json |-> UserResponse(users[CHOOSE i \in found : TRUE])]

\* GET /api/v1/auth/me: HTTPBearer, then get_current_user
GetCurrentUser(cred) ==
    /\ IF cred.forma = "none"
       THEN \E st \in BearerRejectStatus :
               meRespuesta' =
                   [endpoint |-> "me", credencial |-> cred, status |-> st,
                    json |-> Detalle("Not authenticated"), access_token |-> SinCredencial]
       ELSE meRespuesta' =
                [endpoint |-> "me", credencial |-> cred, status |-> Me(cred).status,
                 json |-> Me(cred).json, access_token |-> SinCredencial]
    /\ UNCHANGED <<users, fueraDeAuth>>

NextAuth ==
    \/ \E user_data \in UserCreates : Register(user_data)
    \/ \E cred \in Credenciales : GetCurrentUser(cred)

SpecAuth == Init /\ [][NextAuth]_vars

(***************************************************************************)
(* The sales service on its own: two calls of crear_venta, which the      *)
(* event loop switches at the awaits of their HTTP calls.                  *)
(***************************************************************************)
fueraDeVentas == <<gateway, users, meRespuesta, restoVars>>

\* POST /api/v1/ventas arrives
CrearVenta(r, items) ==
    /\ venta' = [venta EXCEPT ![r] = [SinVenta EXCEPT !.pc = "validar", !.items = items, !.i = 1]]
    /\ UNCHANGED <<stock, ventasDb, fueraDeVentas>>

RecibirVenta(r) == venta[r].pc = "idle" /\ \E items \in ItemLists : CrearVenta(r, items)

\* one turn of the validation loop; after the last item the sale is
\* stored (repo.crear and repo.obtener_por_id do not give up the loop)
ValidarProducto(r, ok) ==
    /\ venta[r].pc = "validar"
    /\ LET v == venta[r]
           item == v.items[v.i]
           producto == ObtenerProducto(item.producto_id, ok)
       IN IF ~producto.existe
          THEN /\ venta' = [venta EXCEPT ![r] =
                      [v EXCEPT !.pc = "done", !.status = 400, !.detail = "no encontrado"]]
               /\ UNCHANGED ventasDb
          ELSE IF ~StockSuficiente(producto, item.cantidad)
          THEN /\ venta' = [venta EXCEPT ![r] =
                      [v EXCEPT !.pc = "done", !.status = 400, !.detail = "Stock insuficiente"]]
               /\ UNCHANGED ventasDb
          ELSE IF v.i < Len(v.items)
          THEN /\ venta' = [venta EXCEPT ![r] = [v EXCEPT !.i = v.i + 1]]
               /\ UNCHANGED ventasDb
          ELSE /\ ventasDb' = Append(ventasDb, [corrida |-> r, items |-> v.items])
               /\ venta' = [venta EXCEPT ![r] =
                      [v EXCEPT !.pc = "leer", !.i = 1, !.insertada = TRUE]]
    /\ UNCHANGED <<stock, fueraDeVentas>>

\* the run after the stock update of its item i: the next item, or the
\* response
Siguiente(v) ==
    IF v.i < Len(v.items) THEN [v EXCEPT !.pc = "leer", !.i = v.i + 1]
    ELSE [v EXCEPT !.pc = "done", !.status = StatusCreada]

\* InventarioService.actualizar_stock, first half: the product is read
\* again and nuevo_stock computed from what was read
ActualizarStockLeer(r, ok) ==
    /\ venta[r].pc = "leer"
    /\ LET v == [venta[r] EXCEPT !.lecturas = @ + 1]
           item == v.items[v.i]
           producto == ObtenerProducto(item.producto_id, ok)
       IN IF ~producto.existe
          THEN venta' = [venta EXCEPT ![r] = Siguiente(v)]
          ELSE venta' = [venta EXCEPT ![r] =
                   [v EXCEPT !.pc = "put", !.nuevo_stock = producto.stock - item.cantidad]]
    /\ UNCHANGED <<stock, ventasDb, fueraDeVentas>>

\* second half: PUT {"stock": nuevo_stock}; a 200 stores it, anything else
\* is logged, and the loop goes on
ActualizarStockPut(r, ok) ==
    /\ venta[r].pc = "put"
    /\ LET v == [venta[r] EXCEPT !.puts = @ + 1]
           item == v.items[v.i]
       IN /\ stock' = IF ok THEN [stock EXCEPT ![item.producto_id] = v.nuevo_stock] ELSE stock
          /\ venta' = [venta EXCEPT ![r] = Siguiente(v)]
    /\ UNCHANGED <<ventasDb, fueraDeVentas>>

NextVentas ==
    \E r \in Corridas :
        \/ RecibirVenta(r)
        \/ \E ok \in BOOLEAN : ValidarProducto(r, ok)
        \/ \E ok \in BOOLEAN : ActualizarStockLeer(r, ok)
        \/ \E ok \in BOOLEAN : ActualizarStockPut(r, ok)

SpecVentas == Init /\ [][NextVentas]_vars

(***************************************************************************)
(* Properties.                                                             *)
(***************************************************************************)
\* the request of run t went to the protected proxy route
Protegida(t) == handler[t].endpoint = "proxy_request"

\* the positions of the forward calls among the calls of run t
Forwards(t) == {i \in 1..Len(llamadas[t]) : llamadas[t][i].tipo = "forward"}

Forwarded(t) == Forwards(t) # {}

\* the values of the inbound headers of run t named name (lower case)
InboundValues(t, name) ==
    {request[t].headers[i][2] : i \in {j \in 1..Len(request[t].headers) :
                                          Lower(request[t].headers[j][1]) = name}}

\* how many headers of the dict h are named name, in any casing
Count(h, name) == Cardinality({i \in 1..Len(h) : Lower(h[i][1]) = name})

\* C1: a request to /api/{name}/{path} whose name is not a key of the
\* registry is answered 404 whatever its credentials, and no call is made
\* to a backend under that name.
C1_UnregisteredIs404 ==
    \A t \in Tareas :
        (pc[t] = "done" /\ Protegida(t) /\ ~Registrado(handler[t].servicio)) =>
            /\ respuesta[t].status = 404
            /\ \A i \in 1..Len(llamadas[t]) : llamadas[t][i].servicio # handler[t].servicio

\* C2: a protected request is forwarded only after its own validation call
\* has been made and has returned an accepted identity (a 200 answer whose
\* body is the truthy value the handler holds); none is forwarded while the
\* authentication is pending, failed or absent.
C2_ForwardOnlyAfterAuth ==
    \A t \in Tareas :
        \A i \in Forwards(t) :
            Protegida(t) =>
                /\ \E j \in 1..(i - 1) : llamadas[t][j].tipo = "validate"
                /\ authOutcome[t].tipo = "response"
                /\ authOutcome[t].status = 200
                /\ Truthy(usuario[t])
                /\ usuario[t] = authOutcome[t].json
                /\ pc[t] \notin {"security", "validar"}

C2_Witness == \E t \in Tareas : Protegida(t) /\ Forwarded(t) /\ pc[t] = "reenvio"

\* C3: a protected request with no Authorization header, with a credential
\* that is not a Bearer credential, or with a token the auth service does
\* not accept is answered 401, and nothing is sent to the target service.
C3_Unauthenticated401 ==
    \A t \in Tareas :
        (/\ pc[t] = "done"
         /\ Protegida(t)
         /\ \/ ~HasBearer(request[t])
            \/ authOutcome[t].tipo = "response" /\ authOutcome[t].status # 200) =>
            /\ respuesta[t].status = 401
            /\ ~Forwarded(t)

\* C4: POST /api/auth/login and POST /api/auth/registro sent with no
\* Authorization header are forwarded to the login / registration sub-path
\* of the auth service, with no token validation call.
C4_PublicRoutesForwarded ==
    \A t \in Tareas :
        (/\ pc[t] = "done"
         /\ request[t].method = "POST"
         /\ request[t].path \in {<<"api", "auth", "login">>, <<"api", "auth", "registro">>}
         /\ InboundValues(t, "authorization") = {}) =>
            /\ \E i \in Forwards(t) :
                   /\ llamadas[t][i].servicio = "auth"
                   /\ llamadas[t][i].path = <<"api", "v1", "auth", request[t].path[3]>>
            /\ \A i \in 1..Len(llamadas[t]) : llamadas[t][i].tipo # "validate"

\* C5: validar_token yields an identity only when the identity endpoint
\* answered 200; for any other status, a transport error or a timeout it
\* yields none, and the request is answered 401 and not forwarded.
C5_FailClosed ==
    \A t \in Tareas :
        authOutcome[t] # SinOutcome =>
            /\ usuario[t] # Ninguno =>
                   authOutcome[t].tipo = "response" /\ authOutcome[t].status = 200
            /\ ~(authOutcome[t].tipo = "response" /\ authOutcome[t].status = 200) =>
                   /\ usuario[t] = Ninguno
                   /\ pc[t] = "done"
                   /\ respuesta[t].status = 401
                   /\ ~Forwarded(t)

C5_Witness ==
    \E t \in Tareas :
        /\ authOutcome[t].tipo = "ReadTimeout"
        /\ Registrado(handler[t].servicio)
        /\ respuesta[t].status = 401

\* C6: on the protected and on the public path the headers sent to the
\* backend hold no Host and no Content-Length in any casing, and filtering
\* them again changes nothing.
C6_HopHeadersStripped ==
    \A t \in Tareas :
        \A i \in Forwards(t) :
            /\ Count(llamadas[t][i].headers, "host") = 0
            /\ Count(llamadas[t][i].headers, "content-length") = 0
            /\ FiltrarHeaders(llamadas[t][i].headers) = llamadas[t][i].headers

C6_Witness ==
    \E t \in Tareas :
        /\ Forwarded(t)
        /\ Protegida(t)
        /\ InboundValues(t, "content-length") # {}

C8_AuthorizationPassedThrough ==
    \A t \in Tareas :
        \A i \in Forwards(t) :
            InboundValues(t, "authorization") # {} =>
                LET h == llamadas[t][i].headers
                IN /\ Count(h, "authorization") = 1
                   /\ DictGet(h, "authorization", "") \in InboundValues(t, "authorization")
                   /\ Protegida(t) =>
                          DictGet(h, "authorization", "") =
                              HeadersGet(RequestHeaders(request[t]), "authorization")

C8_Witness ==
    \E t \in Tareas :
        /\ Forwarded(t)
        /\ Protegida(t)
        /\ Cardinality(InboundValues(t, "authorization")) = 2

\* C9: for every method and on both forwarding paths, a forward call that
\* fails to connect is answered 503.
C9_ConnectError503 ==
    \A t \in Tareas :
        (pc[t] = "done" /\ fwdOutcome[t].tipo = "ConnectError") =>
            respuesta[t].status = 503 /\ respuesta[t].origen = "gateway"

C9_Witness ==
    \E t \in Tareas :
        /\ pc[t] = "done"
        /\ Protegida(t)
        /\ request[t].method = "DELETE"
        /\ fwdOutcome[t].tipo = "ConnectError"
        /\ respuesta[t].status = 503

\* C10: on the protected and on the public forwarding path, a target that
\* accepts the connection and does not answer before the deadline gets the
\* client a 504, and the upstream call is closed.
C10_Timeout504 ==
    \A t \in Tareas :
        (pc[t] = "done" /\ fwdOutcome[t].tipo = "ReadTimeout") =>
            respuesta[t].status = 504 /\ conexion[t] = "closed"

\* C11: a gateway error of status 500 carries a fixed message, with no text
\* of the exception that caused it.
C11_InternalDetailGeneric ==
    \A t \in Tareas :
        (pc[t] = "done" /\ respuesta[t].origen = "gateway" /\ respuesta[t].status = 500) =>
            respuesta[t].exc = ""

\* C12: a proxied request ends with the upstream's response, or with one
\* gateway error of status 404, 401, 503, 504 or 500 and a {"detail": ...}
\* body.
C12_OneTerminalOutcome ==
    \A t \in Tareas :
        (pc[t] = "done" /\ Protegida(t)) =>
            \/ respuesta[t].origen = "upstream"
            \/ /\ respuesta[t].origen = "gateway"
               /\ respuesta[t].status \in {404, 401, 503, 504, 500}
               /\ respuesta[t].detail # ""

\* run t is a call of a health endpoint that has returned
HealthDone(t) == pc[t] = "done" /\ handler[t].endpoint \in {"salud", "health_completo"}

\* C13: /health and /api/health answer 200 with one entry per registered
\* service, in the registry's order: healthy for a probe answered 200, error
\* with the status code for any other answer, unreachable with the error
\* for a probe that failed to connect or timed out.
C13_HealthReport ==
    \A t \in Tareas :
        HealthDone(t) =>
            /\ respuesta[t].status = 200
            /\ respuesta[t].content.items[4] = <<"servicios", salud[t].servicios_status>>
            /\ Len(salud[t].servicios_status) = Len(SERVICIOS)
            /\ \A i \in 1..Len(SERVICIOS) :
                 LET e == salud[t].servicios_status[i]
                     o == salud[t].probes[i]
                 IN /\ e[1] = SERVICIOS[i][1]
                    /\ IF o.tipo = "response" /\ o.status = 200
                       THEN e[2].estado = "saludable"
                       ELSE IF o.tipo = "response"
                       THEN e[2].estado = "error" /\ e[2].status_code = o.status
                       ELSE e[2].estado = "no disponible" /\ "error" \in DOMAIN e[2]

C13_Witness ==
    \E t \in Tareas :
        /\ HealthDone(t)
        /\ handler[t].endpoint = "health_completo"
        /\ salud[t].probes[1].status = 200
        /\ salud[t].probes[2].status = 500
        /\ salud[t].probes[3].tipo = "ReadTimeout"
        /\ \A i \in 4..Len(SERVICIOS) : salud[t].probes[i].tipo = "ConnectError"

\* C14: the report of a health request is ready within one probe timeout.
C14_HealthWithinOneTimeout ==
    \A t \in Tareas : HealthDone(t) => salud[t].elapsed <= ProbeTimeout

\* the <<key, value>> pairs of a sequence of pairs
Pairs(items) == {items[i] : i \in 1..Len(items)}

\* C15: the forward call has the method and the body of the inbound
\* request, the URL made of the registered base address, "/" and the
\* sub-path, and every <<key, value>> pair of the inbound query string.
C15_ForwardPreservesRequest ==
    \A t \in Tareas :
        \A i \in Forwards(t) :
            Protegida(t) =>
                LET c == llamadas[t][i]
                IN /\ c.method = request[t].method
                   /\ c.content = request[t].body
                   /\ c.base = DictGet(SERVICIOS, request[t].path[2], "")
                   /\ c.path = SubSeq(request[t].path, 3, Len(request[t].path))
                   /\ Pairs(c.params) = Pairs(request[t].query)

\* C17: a request to a service name that is not registered makes no call
\* to the authentication service and ends with 404.
C17_ResolveBeforeAuthenticate ==
    \A t \in Tareas :
        (Protegida(t) /\ ~Registrado(handler[t].servicio)) =>
            /\ \A i \in 1..Len(llamadas[t]) : llamadas[t][i].tipo # "validate"
            /\ pc[t] = "done" => respuesta[t].status = 404

\* C18: on both forwarding paths an upstream response is answered with
\* the upstream's status; its content is the decoded JSON value, or {} for
\* an empty body; a body that is not JSON is answered 500.
C18_ResponseAdaptation ==
    \A t \in Tareas :
        (pc[t] = "done" /\ fwdOutcome[t].tipo = "response") =>
            IF fwdOutcome[t].json = JInvalid
            THEN respuesta[t].status = 500 /\ respuesta[t].origen = "gateway"
            ELSE /\ respuesta[t].origen = "upstream"
                 /\ respuesta[t].status = fwdOutcome[t].status
                 /\ respuesta[t].content =
                        IF fwdOutcome[t].json = Ninguno THEN JDict(<< >>)
                        ELSE fwdOutcome[t].json

C18_Witness ==
    \E t \in Tareas :
        /\ pc[t] = "done"
        /\ handler[t].endpoint = "login_proxy"
        /\ fwdOutcome[t] \in {ResponseH(500, Ninguno, h) : h \in BackendHeaders}
        /\ respuesta[t].status = 500
        /\ respuesta[t].origen = "upstream"
        /\ respuesta[t].content = JDict(<< >>)

\* the transport-framing headers
Framing == {"transfer-encoding", "content-length", "connection"}

\* C19: a response built from an upstream response has none of the
\* upstream's Transfer-Encoding, Content-Length and Connection headers.
C19_NoFramingHeaders ==
    \A t \in Tareas :
        (pc[t] = "done" /\ respuesta[t].origen = "upstream") =>
            \A i \in 1..Len(respuesta[t].headers) :
                Lower(respuesta[t].headers[i][1]) \notin Framing

\* the identity call of run t was answered 200 with a JSON object
IdentidadObjeto(t) ==
    /\ Protegida(t)
    /\ authOutcome[t].tipo = "response"
    /\ authOutcome[t].status = 200
    /\ authOutcome[t].json.tipo = "dict"

\* the identity of run t lacks one of the fields id, email and role
IdentidadIncompleta(t) ==
    /\ IdentidadObjeto(t)
    /\ \E k \in {"id", "email", "role"} : ~DictHas(authOutcome[t].json.items, k)

C16_MeIdentity ==
    meRespuesta.endpoint = "me" =>
        LET tok == meRespuesta.credencial
            named == {i \in 1..Len(users) :
                        DictHas(tok.payload, "user_id")
                        /\ users[i].id = DictGet(tok.payload, "user_id", "")}
            valid == tok.forma = "jwt" /\ tok.firma = "ok" /\ ~tok.expirado
        IN /\ meRespuesta.status = 200 <=> (valid /\ named # {})
           /\ meRespuesta.status = 200 =>
                \E i \in named :
                    /\ DictGet(meRespuesta.json.items, "id", "") = users[i].id
                    /\ DictGet(meRespuesta.json.items, "email", "") = users[i].email
                    /\ DictGet(meRespuesta.json.items, "role", "") = users[i].role

C16_Witness ==
    /\ meRespuesta.endpoint = "me"
    /\ meRespuesta.status = 200
    /\ Len(users) = 2
    /\ DictGet(meRespuesta.json.items, "id", "") = users[2].id

\* the validation calls of run t
Validates(t) == {i \in 1..Len(llamadas[t]) : llamadas[t][i].tipo = "validate"}

\* C21: while one request is handled there is at most one validation call
\* and at most one forward call, whatever the outcome of either.
C21_NoRetry ==
    \A t \in Tareas :
        /\ Cardinality(Validates(t)) <= 1
        /\ Cardinality(Forwards(t)) <= 1
        /\ handler[t].endpoint \in PublicEndpoints => Validates(t) = {}

C21_Witness ==
    \E t \in Tareas :
        /\ pc[t] = "done"
        /\ Protegida(t)
        /\ fwdOutcome[t].tipo = "ReadTimeout"
        /\ respuesta[t].status = 504
        /\ Cardinality(Validates(t)) = 1
        /\ Cardinality(Forwards(t)) = 1

\* everything run t holds
Run(t) ==
    <<pc[t], request[t], handler[t], usuario[t], authOutcome[t], llamadas[t], fwdOutcome[t],
      conexion[t], respuesta[t], salud[t]>>

\* the responses run t may end with, given its own request and the
\* outcomes of its own calls
Resultados(t) ==
    IF handler[t].endpoint \in PublicEndpoints THEN {RespuestaPublico(fwdOutcome[t])}
    ELSE IF handler[t].endpoint = "raiz" THEN {Raiz}
    ELSE IF handler[t].endpoint \in {"salud", "health_completo"}
    THEN {Reporte(salud[t].servicios_status)}
    ELSE IF ~Protegida(t)
    THEN {Error(IF Route(request[t].method, request[t].path) = "405" THEN 405 ELSE 404,
                "router")}
    ELSE IF ~HasBearer(request[t])
    THEN {Error(st, "Not authenticated") : st \in BearerRejectStatus}
    ELSE IF UsuarioRechazado(ValidarToken(authOutcome[t]))
    THEN {Error(401, "Token invalido o expirado")}
    ELSE IF ~DictHas(SERVICIOS, handler[t].servicio)
    THEN {Error(404, "Servicio no encontrado")}
    ELSE IF ValidarToken(authOutcome[t]).tipo # "dict"
    THEN {[Error(500, "Internal Server Error") EXCEPT !.origen = "server"]}
    ELSE {RespuestaProxy(fwdOutcome[t])}

\* the calls of run t are made from its own request and its own identity,
\* and its response from the outcomes of its own calls
Propio(t) ==
    /\ \A i \in Forwards(t) :
         Protegida(t) =>
            llamadas[t][i].headers = HeadersProxy(request[t], ValidarToken(authOutcome[t]))
    /\ \A i \in Validates(t) :
         llamadas[t][i].headers =
            << <<"Authorization", <<"Bearer", BearerToken(request[t])>> >> >>
    /\ pc[t] = "done" => respuesta[t] \in Resultados(t)

\* C22: with two requests in flight in any interleaving, the registry stays
\* what it was at start, every step changes what one run holds and nothing
\* of the other, and each run's calls and response follow from its own
\* request and the outcomes of its own calls.
C22_RegistryFixedRunsIsolated ==
    /\ [](servicios = SERVICIOS /\ \A t \in DOMAIN pc : Propio(t))
    /\ [][\A t, u \in DOMAIN pc : (t # u /\ Run(t)' # Run(t)) => Run(u)' = Run(u)]_vars

C22_Witness ==
    /\ DOMAIN pc = TareasDos
    /\ pc["t1"] = "reenvio"
    /\ pc["t2"] = "done"
    /\ Protegida("t1") /\ Protegida("t2")
    /\ usuario["t1"] # usuario["t2"]
    /\ Forwarded("t2")
    /\ respuesta["t2"].status = 200

\* C23: on every forward call, of the protected and of the public proxies,
\* x-user-id and x-user-email are absent or hold what the gateway made of
\* the identity the auth service returned for the request's token.
C23_NoClientIdentityHeaders ==
    \A t \in Tareas :
        \A i \in Forwards(t) :
            LET h == llamadas[t][i].headers
                identidad == authOutcome[t].json.items
            IN IF Protegida(t)
               THEN /\ DictHas(h, "x-user-id") =>
                          DictGet(h, "x-user-id", "") = DictGet(identidad, "id", "unknown")
                    /\ DictHas(h, "x-user-email") =>
                          DictGet(h, "x-user-email", "") = DictGet(identidad, "email", "unknown")
               ELSE ~DictHas(h, "x-user-id") /\ ~DictHas(h, "x-user-email")

\* an item the validation can never pass: its product is not in the catalog,
\* or its quantity is above the stock the product ever has
ItemInvalido(item) ==
    \/ item.producto_id \notin Catalogo
    \/ item.cantidad > StockInicial[item.producto_id]

\* the sale documents stored by run r
VentasDe(r) == {k \in 1..Len(ventasDb) : ventasDb[k].corrida = r}

\* C24: a sale with an item whose product the product service does not
\* return, or has less stock than the item asks, is answered 400; a call
\* answered 400 has stored no sale and has made no stock update call.
C24_ValidateBeforeWrite ==
    \A r \in Corridas :
        LET v == venta[r]
        IN /\ stock \in [Catalogo -> Int] /\ \A p \in Catalogo : stock[p] <= StockInicial[p]
           /\ (\E k \in 1..Len(v.items) : ItemInvalido(v.items[k])) =>
                 /\ ~v.insertada
                 /\ v.pc = "done" => v.status = 400
           /\ v.status = 400 =>
                 /\ VentasDe(r) = {}
                 /\ v.lecturas = 0 /\ v.puts = 0
                 /\ v.detail \in {"no encontrado", "Stock insuficiente"}
           /\ (v.pc = "done" /\ v.status # 400) => v.insertada

C24_Witness ==
    \E r \in Corridas :
        /\ venta[r].pc = "done"
        /\ venta[r].status = 400
        /\ Len(venta[r].items) = 2
        /\ ~ItemInvalido(venta[r].items[1])
        /\ venta[r].items[2].producto_id = "p2"
        /\ \E q \in Corridas : venta[q].puts > 0

\* the units of product p in a sequence of items, and in the stored sales
RECURSIVE Unidades(_, _)
Unidades(items, p) ==
    IF items = << >> THEN 0
    ELSE (IF Head(items).producto_id = p THEN Head(items).cantidad ELSE 0)
         + Unidades(Tail(items), p)

RECURSIVE Vendido(_, _)
Vendido(docs, p) ==
    IF docs = << >> THEN 0 ELSE Unidades(Head(docs).items, p) + Vendido(Tail(docs), p)

\* C25: stock is never negative, and once every call has ended each
\* product's stock is its stock at start less the units of it in the sales
\* stored.
C25_StockConserved ==
    \A p \in Catalogo :
        /\ stock[p] >= 0
        /\ (\A r \in Corridas : venta[r].pc \in {"idle", "done"}) =>
              stock[p] = StockInicial[p] - Vendido(ventasDb, p)

(***************************************************************************)
(* The product service on its own: the DAO is called to fill and prune the *)
(* catalog, and the endpoints are called through ProductoService.          *)
(***************************************************************************)
fueraDeProductos ==
    <<gateway, users, meRespuesta, ventasVars, impresionVars, observadorVars>>

ProdRespuesta(op, producto_id, codigo, cantidad, dao, status) ==
    [op |-> op, producto_id |-> producto_id, codigo |-> codigo, cantidad |-> cantidad,
     dao |-> dao, status |-> status, antes |-> productos]

\* ProductoDAO.crear(producto_data)
Crear(producto_data) ==
    /\ Len(productos) < MaxProductos
    /\ LET r == DaoCrear(productos, producto_data)
       IN /\ productos' = r.coll
          /\ prodRespuesta' = ProdRespuesta("dao.crear", "", producto_data.codigo, 0, r.tipo, 0)
    /\ UNCHANGED fueraDeProductos

\* ProductoDAO.eliminar(producto_id)
Eliminar(producto_id) ==
    /\ LET r == DaoEliminar(productos, producto_id)
       IN /\ productos' = r.coll
          /\ prodRespuesta' = ProdRespuesta("dao.eliminar", producto_id, "", 0, r.tipo, 0)
    /\ UNCHANGED fueraDeProductos

\* POST /api/v1/productos/{producto_id}/stock?cantidad=
ActualizarStock(producto_id, cantidad) ==
    /\ \A i \in 1..Len(productos) : productos[i].stock + cantidad <= MaxStock
    /\ LET r == DaoActualizarStock(productos, producto_id, cantidad)
       IN /\ productos' = r.coll
          /\ prodRespuesta' =
                 ProdRespuesta("actualizar_stock", producto_id, "", cantidad, r.tipo,
                               StatusActualizarStock(r))
    /\ UNCHANGED fueraDeProductos

\* POST /api/v1/productos
CrearProducto(producto) ==
    /\ LET existente == DaoObtenerPorCodigo(productos, producto.sku)
       IN prodRespuesta' =
              ProdRespuesta("crear_producto", "", producto.sku, 0, existente.tipo,
                            StatusCrearProducto(existente))
    /\ UNCHANGED <<productos, fueraDeProductos>>

NextProductos ==
    \/ \E producto_data \in ProductoDatas : Crear(producto_data)
    \/ \E producto_id \in ProductoIds : Eliminar(producto_id)
    \/ \E producto_id \in ProductoIds, cantidad \in Cantidades :
          ActualizarStock(producto_id, cantidad)
    \/ \E producto \in ProductoCrears : CrearProducto(producto)

SpecProductos == Init /\ [][NextProductos]_vars

\* the active documents the last adjustment was aimed at, before it
Ajustados == FindIdActivo(prodRespuesta.antes, prodRespuesta.producto_id)

C27_DuplicateSkuIs400 ==
    /\ \A i, j \in 1..Len(productos) :
          productos[i].activo /\ productos[j].activo /\ productos[i].codigo = productos[j].codigo
             => i = j
    /\ prodRespuesta.op = "crear_producto"
       /\ FindCodigoActivo(prodRespuesta.antes, prodRespuesta.codigo) # {}
          => prodRespuesta.status = 400 /\ productos = prodRespuesta.antes

(***************************************************************************)
(* The print service on its own: the endpoints, and ServicioImpresion      *)
(* called with datos that json.dumps accepts.                              *)
(***************************************************************************)
fueraDeImpresion ==
    <<gateway, users, meRespuesta, ventasVars, productosVars, observadorVars>>

\* POST /api/v1/imprimir/ticket and /reporte: encolar_trabajo with
\* ticket.dict() or reporte.dict(), then the background task
Imprimir(j, tipo, ts, ts2) ==
    /\ trabajos[j].pc = "none"
    /\ LET r == EncolarTrabajo(cola_impresion, IdTrabajo(j), tipo, DatosDatetime, ts)
       IN IF r.tipo = "TypeError"
          THEN /\ trabajos' = [trabajos EXCEPT ![j] = [SinTrabajo EXCEPT !.pc = "rechazado",
                                                                        !.status = 500]]
               /\ UNCHANGED cola_impresion
          ELSE /\ cola_impresion' = r.cola
               /\ trabajos' =
                      [trabajos EXCEPT ![j] =
                          [pc |-> "encolado", entrada |-> r.cola[1],
                           trabajo |-> TrabajoEndpoint(IdTrabajo(j), tipo, DatosDatetime, ts2),
                           status |-> 200]]
    /\ UNCHANGED fueraDeImpresion

\* servicio_impresion.encolar_trabajo(tipo, datos) with datos of JSON
\* values; the job dict is either built as the endpoints build it or read
\* back from the list
Encolar(j, tipo, ts, ts2, leido) ==
    /\ trabajos[j].pc = "none"
    /\ LET r == EncolarTrabajo(cola_impresion, IdTrabajo(j), tipo, DatosJson, ts)
       IN /\ cola_impresion' = r.cola
          /\ trabajos' =
                 [trabajos EXCEPT ![j] =
                     [pc |-> "encolado", entrada |-> r.cola[1],
                      trabajo |-> IF leido THEN r.cola[1].texto
                                  ELSE TrabajoEndpoint(IdTrabajo(j), tipo, DatosJson, ts2),
                      status |-> 0]]
    /\ UNCHANGED fueraDeImpresion

\* procesar_impresion(trabajo) starts and waits in asyncio.sleep(2)
ProcesarImpresion(j) ==
    /\ trabajos[j].pc = "encolado"
    /\ trabajos' = [trabajos EXCEPT ![j].pc = "procesando"]
    /\ UNCHANGED <<cola_impresion, fueraDeImpresion>>

\* procesar_impresion after the sleep: the strategy prints or raises, the
\* job is marked and lrem is called with its text
ProcesarImpresionFin(j, falla) ==
    /\ trabajos[j].pc = "procesando"
    /\ IF falla
       THEN /\ trabajos' =
                   [trabajos EXCEPT ![j].pc = "error",
                                    ![j].trabajo = DictSet(DictSet(@, "estado", "error"),
                                                           "error", "str(e)")]
            /\ UNCHANGED cola_impresion
       ELSE LET trabajo == DictSet(trabajos[j].trabajo, "estado", "completado")
            IN /\ trabajos' = [trabajos EXCEPT ![j].pc = "completado", ![j].trabajo = trabajo]
               /\ cola_impresion' = Lrem(cola_impresion, JsonDumps(trabajo))
    /\ UNCHANGED fueraDeImpresion

NextImpresion ==
    \/ \E j \in Trabajos, tipo \in Tipos, ts, ts2 \in Instantes : Imprimir(j, tipo, ts, ts2)
    \/ \E j \in Trabajos, tipo \in Tipos, ts, ts2 \in Instantes, leido \in BOOLEAN :
          Encolar(j, tipo, ts, ts2, leido)
    \/ \E j \in Trabajos : ProcesarImpresion(j)
    \/ \E j \in Trabajos, falla \in BOOLEAN : ProcesarImpresionFin(j, falla)

SpecImpresion == Init /\ [][NextImpresion]_vars

\* C28: the entry pushed for a job that procesar_impresion has processed
\* without error is no longer in cola_impresion, and the length of the list
\* is the number of jobs pushed and not yet processed without error
C28_ProcessedJobDequeued ==
    /\ \A j \in Trabajos :
          trabajos[j].pc = "completado" =>
             \A i \in 1..Len(cola_impresion) : cola_impresion[i] # trabajos[j].entrada
    /\ Len(cola_impresion)
          = Cardinality({j \in Trabajos : trabajos[j].pc \in {"encolado", "procesando", "error"}})

(***************************************************************************)
(* The inventory service's sujeto_stock on its own.                        *)
(***************************************************************************)
fueraDeObservador ==
    <<gateway, users, meRespuesta, ventasVars, productosVars, impresionVars>>

\* sujeto_stock.agregar_observador(observador)
Agregar(observador) ==
    /\ observadores' = AgregarObservador(observadores, observador)
    /\ notificacion' =
           [op |-> "agregar", observador |-> observador, antes |-> observadores,
            llamadas |-> << >>]
    /\ UNCHANGED fueraDeObservador

\* sujeto_stock.eliminar_observador(observador)
Quitar(observador) ==
    /\ observadores' = EliminarObservador(observadores, observador)
    /\ notificacion' =
           [op |-> "eliminar", observador |-> observador, antes |-> observadores,
            llamadas |-> << >>]
    /\ UNCHANGED fueraDeObservador

\* sujeto_stock.notificar_observadores(evento, datos), the observers of
\* fallan raising in actualizar
Notificar(fallan) ==
    /\ notificacion' =
           [op |-> "notificar", observador |-> "", antes |-> observadores,
            llamadas |-> NotificarObservadores(observadores, fallan)]
    /\ UNCHANGED <<observadores, fueraDeObservador>>

NextObservador ==
    \/ \E observador \in Observadores : Agregar(observador)
    \/ \E observador \in Observadores : Quitar(observador)
    \/ \E fallan \in SUBSET Observadores : Notificar(fallan)

SpecObservador == Init /\ [][NextObservador]_vars

\* the observer is in the list the last call found
EstabaPresente ==
    \E i \in 1..Len(notificacion.antes) : notificacion.antes[i] = notificacion.observador

\* C29: no observer is twice in the list; adding a present observer and
\* removing an absent one leave the list as it was, adding an absent one
\* puts it last and removing a present one takes it out and keeps the order
\* of the others; a notification calls actualizar once on each registered
\* observer, in the order of the list, whichever of the calls raise
C29_ObserverListDuplicateFree ==
    /\ \A i, j \in 1..Len(observadores) : observadores[i] = observadores[j] => i = j
    /\ notificacion.op = "agregar" =>
          observadores = IF EstabaPresente THEN notificacion.antes
                         ELSE Append(notificacion.antes, notificacion.observador)
    /\ notificacion.op = "eliminar" =>
          observadores = IF EstabaPresente
                         THEN SelectSeq(notificacion.antes,
                                        LAMBDA o : o # notificacion.observador)
                         ELSE notificacion.antes
    /\ notificacion.op = "notificar" =>
          /\ observadores = notificacion.antes
          /\ Len(notificacion.llamadas) = Len(observadores)
          /\ \A i \in 1..Len(observadores) :
                notificacion.llamadas[i].observador = observadores[i]

\* three observers were notified although the first one raised
C29_Witness ==
    /\ notificacion.op = "notificar"
    /\ Len(notificacion.llamadas) = 3
    /\ notificacion.llamadas[1].raised
    /\ ~notificacion.llamadas[2].raised

(***************************************************************************)
(* Access of deactivated users: registration, login, the identity endpoint *)
(* presented with the tokens the service has issued, and the is_active     *)
(* flag of a stored user being cleared in the users collection.            *)
(***************************************************************************)
\* the bodies of POST /api/v1/auth/login
UserLogins == [email : {"ana@pos.com", "luis@pos.com"}, password : {"secreta", "otra"}]

\* AuthService.verify_password: bcrypt.checkpw of the password against the
\* stored hash of the password the user registered with
VerifyPassword(plain_password, user) == plain_password = user.password

\* the answer of AuthService.authenticate_user followed by create_token
Authenticate(login_data) ==
    LET found == FindUserByEmail(users, login_data.email)
    IN IF found = {} \/ ~VerifyPassword(login_data.password, users[CHOOSE i \in found : TRUE])
       THEN [status |-> 401, json |-> Detalle("Credenciales inválidas"),
             access_token |-> SinCredencial]
       ELSE LET user == users[CHOOSE i \in found : TRUE]
            IN IF ~user.is_active
               THEN [status |-> 401, json |-> Detalle("Usuario inactivo"),
                     access_token |-> SinCredencial]
               ELSE [status |-> 200, json |-> UserResponse(user),
                     access_token |-> CreateToken(user)]

\* POST /api/v1/auth/login
Login(login_data) ==
    /\ meRespuesta' =
           [endpoint |-> "login", credencial |-> SinCredencial,
            status |-> Authenticate(login_data).status,
            json |-> Authenticate(login_data).json,
            access_token |-> Authenticate(login_data).access_token]
    /\ UNCHANGED <<users, fueraDeAuth>>

\* the is_active flag of the i-th user is set to false in the collection
Desactivar(i) ==
    /\ users[i].is_active
    /\ users' = [users EXCEPT ![i].is_active = FALSE]
    /\ UNCHANGED <<meRespuesta, fueraDeAuth>>

\* the tokens register and login have issued: one per user, since
\* create_token depends on the user's id, email and role only
TokensEmitidos == {CreateToken(users[i]) : i \in 1..Len(users)}

NextAcceso ==
    \/ \E user_data \in UserCreates : Register(user_data)
    \/ \E login_data \in UserLogins : Login(login_data)
    \/ \E i \in 1..Len(users) : Desactivar(i)
    \/ \E cred \in TokensEmitidos \cup {SinCredencial} : GetCurrentUser(cred)

SpecAcceso == Init /\ [][NextAcceso]_vars

\* C30: a login refused for an inactive user is a 401 with no token, and a
\* 200 of the login or of the identity endpoint never describes a user whose
\* is_active flag is false
C30_InactiveUserNoAccess ==
    /\ meRespuesta.endpoint = "login" /\ meRespuesta.json = Detalle("Usuario inactivo") =>
          meRespuesta.status = 401 /\ meRespuesta.access_token = SinCredencial
    /\ meRespuesta.endpoint \in {"login", "me"} /\ meRespuesta.status = 200 =>
          DictGet(meRespuesta.json.items, "is_active", "") = "true"

====
